---- MODULE Spec2Model ----
(***************************************************************************)
(* A model of the stock portfolio tracker in src/main.py: the interactive  *)
(* collector get_user_portfolio, calculate_portfolio_value,                *)
(* calculate_portfolio_weights, the console report of main and             *)
(* save_results_to_file.                                                   *)
(*                                                                         *)
(* Python's int is unbounded and its float is an IEEE-754 binary64.  Both  *)
(* are modelled exactly: a natural number is a little-endian sequence of   *)
(* limbs in base 2^15 (so that a product of two limbs stays inside TLC's   *)
(* 32-bit integers), a float is a 53-bit mantissa m and an exponent e      *)
(* standing for m * 2^e, or an infinity, or a NaN.  Every float operation  *)
(* rounds to nearest, ties to even, as the hardware does.                  *)
(*                                                                         *)
(* A string is a sequence of one-character strings, so that strip(),       *)
(* upper(), lower() and int() can be computed as the interpreter computes  *)
(* them.                                                                   *)
(***************************************************************************)
EXTENDS Integers, Sequences, FiniteSets, TLC

(***************************************************************************)
(* Unbounded naturals (Python int magnitudes).                             *)
(***************************************************************************)
LimbBits == 15
Base == 2^LimbBits

Pow2(n) == 2^n

Max(a, b) == IF a >= b THEN a ELSE b
Min(a, b) == IF a <= b THEN a ELSE b

BOne == <<1>>

\* The limbs of a small native number.
RECURSIVE BFromNat(_)
BFromNat(n) == IF n = 0 THEN << >> ELSE <<n % Base>> \o BFromNat(n \div Base)

RECURSIVE BAddC(_, _, _)
BAddC(a, b, c) ==
    IF a = << >> /\ b = << >>
    THEN IF c = 0 THEN << >> ELSE <<c>>
    ELSE LET x == (IF a = << >> THEN 0 ELSE Head(a))
                  + (IF b = << >> THEN 0 ELSE Head(b)) + c
         IN  <<x % Base>> \o BAddC(IF a = << >> THEN << >> ELSE Tail(a),
                                   IF b = << >> THEN << >> ELSE Tail(b),
                                   x \div Base)

BAdd(a, b) == BAddC(a, b, 0)

\* The high zero limbs removed.
RECURSIVE BNorm(_)
BNorm(a) ==
    IF a = << >> THEN << >>
    ELSE IF a[Len(a)] = 0 THEN BNorm(SubSeq(a, 1, Len(a) - 1)) ELSE a

\* a - b - c for a >= b + c, not normalised.
RECURSIVE BSubB(_, _, _)
BSubB(a, b, c) ==
    IF a = << >> THEN << >>
    ELSE LET x == Head(a) - (IF b = << >> THEN 0 ELSE Head(b)) - c
         IN  <<IF x < 0 THEN x + Base ELSE x>>
             \o BSubB(Tail(a), IF b = << >> THEN << >> ELSE Tail(b),
                      IF x < 0 THEN 1 ELSE 0)

BSub(a, b) == BNorm(BSubB(a, b, 0))

\* -1, 0, 1 as a < b, a = b, a > b; i is the limb compared, from the top.
RECURSIVE BCmpAt(_, _, _)
BCmpAt(a, b, i) ==
    IF i = 0 THEN 0
    ELSE IF a[i] < b[i] THEN -1
    ELSE IF a[i] > b[i] THEN 1
    ELSE BCmpAt(a, b, i - 1)

BCmp(a, b) ==
    IF Len(a) < Len(b) THEN -1
    ELSE IF Len(a) > Len(b) THEN 1
    ELSE BCmpAt(a, b, Len(a))

\* a * k + c for 0 <= k, c < Base.
RECURSIVE BMulSmallC(_, _, _)
BMulSmallC(a, k, c) ==
    IF a = << >>
    THEN IF c = 0 THEN << >> ELSE <<c>>
    ELSE LET x == Head(a) * k + c
         IN  <<x % Base>> \o BMulSmallC(Tail(a), k, x \div Base)

BMulSmall(a, k) == IF k = 0 THEN << >> ELSE BMulSmallC(a, k, 0)

\* a * b, the limbs of b split in halves so that the recursion stays shallow.
RECURSIVE BMul(_, _)
BMul(a, b) ==
    IF b = << >> \/ a = << >> THEN << >>
    ELSE IF Len(b) = 1 THEN BMulSmall(a, b[1])
    ELSE LET h == Len(b) \div 2
             lo == BMul(a, BNorm(SubSeq(b, 1, h)))
             hi == BMul(a, SubSeq(b, h + 1, Len(b)))
         IN  BAdd(lo, [i \in 1..h |-> 0] \o hi)

\* <<a \div d, a % d>> for 0 < d < Base; i is the limb divided, from the top.
RECURSIVE BDivSmallAt(_, _, _, _, _)
BDivSmallAt(a, d, i, r, q) ==
    IF i = 0 \/ Len(q) < 0 THEN <<BNorm(q), r>>
    ELSE LET x == r * Base + a[i]
         IN  BDivSmallAt(a, d, i - 1, x % d, <<x \div d>> \o q)

BDivSmall(a, d) == BDivSmallAt(a, d, Len(a), 0, << >>)

\* a * 2^n.
BShl(a, n) ==
    IF a = << >> THEN << >>
    ELSE [i \in 1..(n \div LimbBits) |-> 0] \o BMulSmall(a, Pow2(n % LimbBits))

\* a \div 2^n.
BShr(a, n) ==
    IF Len(a) <= n \div LimbBits THEN << >>
    ELSE BDivSmall(SubSeq(a, (n \div LimbBits) + 1, Len(a)), Pow2(n % LimbBits))[1]

RECURSIVE SmallBitLen(_)
SmallBitLen(n) == IF n = 0 THEN 0 ELSE 1 + SmallBitLen(n \div 2)

BBitLen(a) ==
    IF a = << >> THEN 0 ELSE (Len(a) - 1) * LimbBits + SmallBitLen(a[Len(a)])

BOdd(a) == a # << >> /\ a[1] % 2 = 1

\* The largest digit q < Base with d * q <= r, for r < d * Base, found bit by
\* bit from bit b down; acc holds the bits settled so far.
RECURSIVE BQuotDigit(_, _, _, _)
BQuotDigit(r, d, b, acc) ==
    IF b < 0 THEN acc
    ELSE IF BCmp(BMulSmall(d, acc + Pow2(b)), r) <= 0
    THEN BQuotDigit(r, d, b - 1, acc + Pow2(b))
    ELSE BQuotDigit(r, d, b - 1, acc)

\* <<n \div d, n % d>> for d > 0, by long division limb by limb; i is the limb
\* of n brought down, from the top, r the running remainder, q the quotient.
RECURSIVE BDivModAt(_, _, _, _, _)
BDivModAt(n, d, i, r, q) ==
    IF i = 0 THEN <<BNorm(q), r>>
    ELSE LET r1 == BNorm(<<n[i]>> \o r)
             qd == BQuotDigit(r1, d, LimbBits - 1, 0)
         IN  BDivModAt(n, d, i - 1, BSub(r1, BMulSmall(d, qd)), <<qd>> \o q)

BDivMod(n, d) == BDivModAt(n, d, Len(n), << >>, << >>)

\* n \div 2^r rounded to nearest, ties to even; sticky says that the exact
\* value lies strictly above n.
BRoundShr(n, r, sticky) ==
    IF r = 0 THEN n
    ELSE LET q == BShr(n, r)
             rem == BSub(n, BShl(q, r))
             c == BCmp(rem, BShl(BOne, r - 1))
         IN  IF c > 0 \/ (c = 0 /\ (sticky \/ BOdd(q)))
             THEN BAddC(q, << >>, 1)
             ELSE q

(***************************************************************************)
(* Python float: IEEE-754 binary64.  A finite float is m * 2^e with        *)
(* m = 0, or 2^52 <= m < 2^53 and EMin < e, or m < 2^52 and e = EMin (a    *)
(* subnormal).  Only non-negative floats occur: every price and every      *)
(* accepted quantity is positive.                                          *)
(***************************************************************************)
MantBits == 53
EMin == -1074
EMax == 971

FZero == [k |-> "fin", m |-> << >>, e |-> 0]
FInf == [k |-> "inf", m |-> << >>, e |-> 0]
FNaN == [k |-> "nan", m |-> << >>, e |-> 0]

\* The float nearest to n * 2^e (ties to even); sticky says that the exact
\* value lies strictly above n * 2^e by less than 2^e.
FRound(n, e, sticky) ==
    IF n = << >> THEN FZero
    ELSE LET e1 == Max(e + BBitLen(n) - MantBits, EMin)
         IN  IF e1 <= e
             THEN IF e1 > EMax THEN FInf
                  ELSE [k |-> "fin", m |-> BShl(n, e - e1), e |-> e1]
             ELSE LET m == BRoundShr(n, e1 - e, sticky)
                      carry == BBitLen(m) > MantBits
                      m2 == IF carry THEN BShr(m, 1) ELSE m
                      e2 == IF carry THEN e1 + 1 ELSE e1
                  IN  IF m2 = << >> THEN FZero
                      ELSE IF e2 > EMax THEN FInf
                      ELSE [k |-> "fin", m |-> m2, e |-> e2]

FIsZero(x) == x.k = "fin" /\ x.m = << >>

\* float(n) for an int n >= 0: PyLong_AsDouble rounds to nearest and raises
\* OverflowError ("int too large to convert to float") past the largest float.
IntToFloat(n) ==
    LET x == FRound(n, 0, FALSE)
    IN  IF x.k = "inf" THEN [k |-> "OverflowError", m |-> << >>, e |-> 0] ELSE x

\* x * y of two floats: never raises, overflows to inf.
FMul(x, y) ==
    IF x.k = "nan" \/ y.k = "nan" THEN FNaN
    ELSE IF x.k = "inf" \/ y.k = "inf"
    THEN IF FIsZero(x) \/ FIsZero(y) THEN FNaN ELSE FInf
    ELSE FRound(BMul(x.m, y.m), x.e + y.e, FALSE)

\* x + y of two non-negative floats.
FAdd(x, y) ==
    IF x.k = "nan" \/ y.k = "nan" THEN FNaN
    ELSE IF x.k = "inf" \/ y.k = "inf" THEN FInf
    ELSE IF FIsZero(x) THEN y
    ELSE IF FIsZero(y) THEN x
    ELSE LET e == Min(x.e, y.e)
         IN  FRound(BAdd(BShl(x.m, x.e - e), BShl(y.m, y.e - e)), e, FALSE)

\* x / y of two non-negative floats; a zero divisor raises ZeroDivisionError.
FDiv(x, y) ==
    IF x.k = "nan" \/ y.k = "nan" THEN FNaN
    ELSE IF FIsZero(y) THEN [k |-> "ZeroDivisionError", m |-> << >>, e |-> 0]
    ELSE IF x.k = "inf" THEN IF y.k = "inf" THEN FNaN ELSE FInf
    ELSE IF y.k = "inf" \/ FIsZero(x) THEN FZero
    ELSE LET sh == Max(0, MantBits + 3 + BBitLen(y.m) - BBitLen(x.m))
             qr == BDivMod(BShl(x.m, sh), y.m)
         IN  FRound(qr[1], x.e - y.e - sh, qr[2] # << >>)

\* format(x, ".2f"): the decimal with two fractional digits nearest to the
\* exact value of x (ties to even), given as its number c of hundredths;
\* "inf" and "nan" for the non-finite floats.
Fixed2(x) ==
    IF x.k # "fin" THEN [k |-> x.k, c |-> << >>]
    ELSE IF x.e >= 0 THEN [k |-> "fin", c |-> BShl(BMulSmall(x.m, 100), x.e)]
    ELSE [k |-> "fin", c |-> BRoundShr(BMulSmall(x.m, 100), -x.e, FALSE)]

\* The float a decimal literal with two fractional digits denotes: the float
\* nearest to cents / 100.
FloatLiteral(cents) == FDiv(IntToFloat(BFromNat(cents)), IntToFloat(BFromNat(100)))

(***************************************************************************)
(* Python str, as far as the program uses it.                              *)
(***************************************************************************)
Whitespace == {" ", "\t"}
Lowers == <<"a", "b", "c", "d", "e", "f", "g", "h", "i", "j", "k", "l", "m",
            "n", "o", "p", "q", "r", "s", "t", "u", "v", "w", "x", "y", "z">>
Uppers == <<"A", "B", "C", "D", "E", "F", "G", "H", "I", "J", "K", "L", "M",
            "N", "O", "P", "Q", "R", "S", "T", "U", "V", "W", "X", "Y", "Z">>
Digits == <<"0", "1", "2", "3", "4", "5", "6", "7", "8", "9">>

Range(f) == {f[i] : i \in DOMAIN f}
IndexOf(seq, c) == CHOOSE i \in DOMAIN seq : seq[i] = c

\* s.strip()
RECURSIVE LStrip(_)
LStrip(s) == IF s # << >> /\ Head(s) \in Whitespace THEN LStrip(Tail(s)) ELSE s

RECURSIVE RStrip(_)
RStrip(s) ==
    IF s # << >> /\ s[Len(s)] \in Whitespace
    THEN RStrip(SubSeq(s, 1, Len(s) - 1))
    ELSE s

Strip(s) == RStrip(LStrip(s))

\* s.upper() and s.lower()
Upper(s) ==
    [i \in DOMAIN s |-> IF s[i] \in Range(Lowers) THEN Uppers[IndexOf(Lowers, s[i])]
                        ELSE s[i]]
Lower(s) ==
    [i \in DOMAIN s |-> IF s[i] \in Range(Uppers) THEN Lowers[IndexOf(Uppers, s[i])]
                        ELSE s[i]]

\* 10^k as an unbounded natural, by repeated squaring.
RECURSIVE BPow10(_)
BPow10(k) ==
    IF k = 0 THEN BOne
    ELSE LET h == BPow10(k \div 2)
         IN  IF k % 2 = 0 THEN BMul(h, h) ELSE BMulSmall(BMul(h, h), 10)

\* The number a sequence of decimal digits denotes.
RECURSIVE DigitsValue(_)
DigitsValue(ds) ==
    IF ds = << >> THEN << >>
    ELSE IF Len(ds) = 1 THEN BFromNat(IndexOf(Digits, ds[1]) - 1)
    ELSE LET h == Len(ds) \div 2
         IN  BAdd(BMul(DigitsValue(SubSeq(ds, 1, h)), BPow10(Len(ds) - h)),
                  DigitsValue(SubSeq(ds, h + 1, Len(ds))))

SelectDigits(s) == SelectSeq(s, LAMBDA c : c \in Range(Digits))

\* int(s), base 10: surrounding whitespace, an optional sign, then decimal
\* digits that single underscores may separate; anything else raises
\* ValueError.  The result is a sign and a magnitude.
ParseInt(s) ==
    LET t == Strip(s)
        signed == t # << >> /\ Head(t) \in {"+", "-"}
        body == IF signed THEN Tail(t) ELSE t
        wellFormed ==
            /\ body # << >>
            /\ \A i \in DOMAIN body : body[i] \in Range(Digits) \cup {"_"}
            /\ body[1] # "_"
            /\ body[Len(body)] # "_"
            /\ \A i \in 1..(Len(body) - 1) : ~(body[i] = "_" /\ body[i + 1] = "_")
    IN  IF wellFormed
        THEN [err |-> "", neg |-> signed /\ Head(t) = "-",
              mag |-> DigitsValue(SelectDigits(body))]
        ELSE [err |-> "ValueError", neg |-> FALSE, mag |-> << >>]

\* quantity < 0 in place of quantity <= 0.
NonPositiveStrict(n) == n.neg

\* n <= 0 for a parsed int n.
NonPositive(n) == n.neg \/ n.mag = << >>

(***************************************************************************)
(* The price table.                                                        *)
(***************************************************************************)
NVDA == <<"N", "V", "D", "A">>
JNJ == <<"J", "N", "J">>
V == <<"V">>
COST == <<"C", "O", "S", "T">>
ASML == <<"A", "S", "M", "L">>
RY == <<"R", "Y">>

\* The decimal literals of the table, in hundredths.
PriceCents ==
    (NVDA :> 87550) @@ (JNJ :> 15830) @@ (V :> 27015) @@ (COST :> 78000)
    @@ (ASML :> 99588) @@ (RY :> 10545)

\* The table as the interpreter holds it: each literal is a float.
STOCK_PRICES == [t \in DOMAIN PriceCents |-> FloatLiteral(PriceCents[t])]

DONE == <<"D", "O", "N", "E">>

(***************************************************************************)
(* What the user may type.  The lines are chosen so that every branch of   *)
(* the input validation is taken, the arithmetic leaves the range where    *)
(* floats are exact to the cent, and the float range itself is left.       *)
(***************************************************************************)
MaxHoldings == 2

\* 1 followed by n zeros.
OneAndZeros(n) == <<"1">> \o [i \in 1..n |-> "0"]

TickerInputs ==
    { <<"n", "v", "d", "a">>, <<" ", "V", " ">>,
      <<"d", "o", "n", "e">>, <<" ", "D", "o", "n", "e">>,
      <<"x", "y", "z">>, << >> }

QuantityInputs ==
    { << >>, <<" ", " ">>,
      <<"a", "b", "c">>, <<"d", "o", "n", "e">>, <<"1", ".", "5">>,
      <<"0">>, <<"-", "3">>,
      <<"2">>, <<" ", "1", "0">>,
      <<"2">> \o [i \in 1..11 |-> "0"],
      OneAndZeros(306), OneAndZeros(309) }

SaveInputs == { <<"y">>, <<" ", "Y">>, <<"n">>, <<"y", "e", "s">>, << >> }

(***************************************************************************)
(* The program.                                                            *)
(***************************************************************************)
VARIABLES
    pc,           \* where the program is
    portfolio,    \* get_user_portfolio's list, then main's user_portfolio
    ticker,       \* get_user_portfolio's local: the ticker being entered
    total_value,  \* main's local
    lastInput,    \* the line the last step read with input(), if it read one
    out,          \* what the last step printed
    console,      \* the report main printed
    file,         \* the contents of portfolio_summary.txt
    steps,        \* history: the steps main has taken after collection
    accepted,     \* history: the (ticker, quantity) entries accepted
    firstTicker   \* history: what the first line at the ticker prompt was

vars == <<pc, portfolio, ticker, total_value, lastInput, out, console, file,
          steps, accepted, firstTicker>>

\* No line: the step called input() not at all.
NoLine == <<"(no line)">>

\* No file on disk.
Absent == <<"absent">>
\* A report left by an earlier run.
Stale == <<"stale">>

\* One formatted field of a printed line: the format specification, and the
\* text, the int or the two-decimal number it shows.
CStr(fmt, str) == [fmt |-> fmt, k |-> "str", s |-> str, c |-> << >>]
CInt(fmt, n) == [fmt |-> fmt, k |-> "int", s |-> << >>, c |-> n]
CFix(fmt, x) == [fmt |-> fmt, k |-> Fixed2(x).k, s |-> << >>, c |-> Fixed2(x).c]

\* A printed line: the literal text of its f-string and its fields in order.
Msg(text, args) == [text |-> text, args |-> args]

Rule(ch) == Msg(ch, <<CInt("*", BFromNat(65))>>)

Holding(t, q, price, value, weight) ==
    [ticker |-> t, quantity |-> q, price |-> price, value |-> value,
     weight |-> weight]

\* quantity * price at line 54: the int is converted to a float first.
HoldingValue(q, price) ==
    LET fq == IntToFloat(q)
    IN  IF fq.k = "OverflowError" THEN fq ELSE FMul(fq, price)

Init ==
    /\ pc = "AwaitingTicker"
    /\ portfolio = << >>
    /\ ticker = << >>
    /\ total_value = FZero
    /\ lastInput = NoLine
    /\ out = <<Msg("Enter stock ticker (e.g., NVDA): ", << >>)>>
    /\ console = << >>
    /\ file \in {Absent, Stale}
    /\ steps = << >>
    /\ accepted = << >>
    /\ firstTicker = "none"

\* Line 28: the ticker as typed, stripped and upper-cased.
NormalizeTicker(line) == Upper(Strip(line))

\* Line 29.
IsSentinel(t) == t = DONE

\* Line 33 with the membership test lost.
TickerKnownAlways(t) == TRUE

\* Line 33.
TickerKnown(t) == t \in DOMAIN STOCK_PRICES

TickerError(t) ==
    Msg("Error: Stock '{}' not found in the price list. Please try one of the available options.",
        <<CStr("", t)>>)

\* One pass of the outer loop up to the quantity prompt: lines 28-35.  A known
\* ticker is taken only while the portfolio is below the bound of the model.
ReadTicker(line) ==
    /\ pc = "AwaitingTicker"
    /\ LET t == NormalizeTicker(line)
       IN  /\ (~IsSentinel(t) /\ TickerKnown(t)) => Len(portfolio) < MaxHoldings
           /\ lastInput' = line
           /\ ticker' = t
           /\ firstTicker' = IF firstTicker # "none" THEN firstTicker
                             ELSE IF t = DONE THEN "sentinel" ELSE "other"
           /\ IF IsSentinel(t)
              THEN pc' = "Done" /\ out' = << >>
              ELSE IF ~TickerKnown(t)
              THEN pc' = "AwaitingTicker" /\ out' = <<TickerError(t)>>
              ELSE pc' = "AwaitingQuantity" /\ out' = << >>
    /\ UNCHANGED <<portfolio, total_value, console, file, steps, accepted>>

EmptyMessage == Msg("Quantity cannot be empty.", << >>)
NotPositiveMessage == Msg("Quantity must be a positive whole number.", << >>)
NotNumberMessage ==
    Msg("Invalid input. Please enter a whole number for quantity.", << >>)

\* Lines 40-50, one pass of the inner loop: the message printed before the
\* loop goes round again, or "break" with the quantity.
CheckQuantity(line) ==
    LET quantity_input == Strip(line)
        quantity == ParseInt(quantity_input)
    IN  IF quantity_input = << >>
        THEN [result |-> "continue", message |-> EmptyMessage, quantity |-> << >>]
        ELSE IF quantity.err = "ValueError"
        THEN [result |-> "continue", message |-> NotNumberMessage, quantity |-> << >>]
        ELSE IF NonPositive(quantity)
        THEN [result |-> "continue", message |-> NotPositiveMessage, quantity |-> << >>]
        ELSE [result |-> "break", message |-> Msg("", << >>), quantity |-> quantity.mag]

\* CheckQuantity of every line the user may type, computed once.
QuantityChecks == [line \in QuantityInputs |-> CheckQuantity(line)]

\* Lines 56-62 adding to the holding of the same ticker when there is one.
AppendHoldingMerging(p, h) ==
    IF \E i \in DOMAIN p : p[i].ticker = h.ticker
    THEN [i \in DOMAIN p |->
            IF p[i].ticker = h.ticker
            THEN [p[i] EXCEPT !.quantity = BAdd(@, h.quantity),
                              !.value = FAdd(@, h.value)]
            ELSE p[i]]
    ELSE Append(p, h)

\* Lines 56-62.
AppendHolding(p, h) == Append(p, h)

AddedMessage(h) ==
    Msg("-> Added {} shares of {} at ${} each. Current value: ${}",
        <<CInt("", h.quantity), CStr("", h.ticker), CFix(".2f", h.price),
          CFix(",.2f", h.value)>>)

\* One pass of the inner loop and, when it breaks, the rest of the outer
\* loop's body: lines 40-63.  The OverflowError of line 54 is caught nowhere
\* and ends the process.
ReadQuantity(line) ==
    /\ pc = "AwaitingQuantity"
    /\ lastInput' = line
    /\ LET chk == QuantityChecks[line]
           price == STOCK_PRICES[ticker]
           value == HoldingValue(chk.quantity, price)
           h == Holding(ticker, chk.quantity, price, value, FZero)
       IN  IF chk.result = "continue"
           THEN /\ pc' = "AwaitingQuantity"
                /\ out' = <<chk.message>>
                /\ UNCHANGED <<portfolio, accepted>>
           ELSE IF value.k = "OverflowError"
           THEN /\ pc' = "crashed"
                /\ out' = <<Msg("OverflowError: int too large to convert to float", << >>)>>
                /\ UNCHANGED <<portfolio, accepted>>
           ELSE /\ pc' = "AwaitingTicker"
                /\ portfolio' = AppendHolding(portfolio, h)
                /\ accepted' = Append(accepted, <<ticker, chk.quantity>>)
                /\ out' = <<AddedMessage(h)>>
    /\ UNCHANGED <<ticker, total_value, console, file, steps, firstTicker>>

\* Line 124 testing for None in place of the empty list.
IsEmptyNever(p) == FALSE

\* Line 124: not user_portfolio.
IsEmpty(p) == p = << >>

\* Lines 122-126: get_user_portfolio has returned; an empty list ends main.
CheckEmpty ==
    /\ pc = "Done"
    /\ IF IsEmpty(portfolio)
       THEN /\ pc' = "exit"
            /\ out' = <<Msg("", << >>), Msg("No stocks were entered. Application closing.", << >>)>>
            /\ steps' = Append(steps, "sys.exit")
       ELSE /\ pc' = "value"
            /\ out' = << >>
            /\ steps' = steps
    /\ lastInput' = NoLine
    /\ UNCHANGED <<portfolio, ticker, total_value, console, file, accepted, firstTicker>>

\* sum() over the values from position i on, acc being the sum so far.
RECURSIVE SumValues(_, _, _)
SumValues(p, i, acc) ==
    IF i > Len(p) THEN acc ELSE SumValues(p, i + 1, FAdd(acc, p[i].value))

\* Lines 67-73 summing the price field in place of the value field.
SumOfPrices(p) ==
    LET F[n \in 0..Len(p)] == IF n = 0 THEN FZero ELSE FAdd(F[n - 1], p[n].price)
    IN  F[Len(p)]

\* Lines 67-73.  sum() starts from the int 0.
calculate_portfolio_value(p) == SumValues(p, 1, FZero)

\* Lines 75-87: the list after the call.
calculate_portfolio_weights(p, total) ==
    IF FIsZero(total) THEN p
    ELSE [i \in DOMAIN p |->
            [p[i] EXCEPT !.weight =
                FMul(FDiv(p[i].value, total), IntToFloat(BFromNat(100)))]]

\* Line 129.
CalcValue ==
    /\ pc = "value"
    /\ total_value' = calculate_portfolio_value(portfolio)
    /\ pc' = "weights"
    /\ out' = << >>
    /\ steps' = Append(steps, "calculate_portfolio_value")
    /\ lastInput' = NoLine
    /\ UNCHANGED <<portfolio, ticker, console, file, accepted, firstTicker>>

\* Line 132.
CalcWeights ==
    /\ pc = "weights"
    /\ portfolio' = calculate_portfolio_weights(portfolio, total_value)
    /\ pc' = "render"
    /\ out' = << >>
    /\ steps' = Append(steps, "calculate_portfolio_weights")
    /\ lastInput' = NoLine
    /\ UNCHANGED <<ticker, total_value, console, file, accepted, firstTicker>>

HeaderLine ==
    Msg("", <<CStr("<10", <<"T", "i", "c", "k", "e", "r">>),
              CStr("<10", <<"Q", "u", "a", "n", "t", "i", "t", "y">>),
              CStr("<10", <<"P", "r", "i", "c", "e">>),
              CStr("<15", <<"V", "a", "l", "u", "e", " ", "(", "U", "S", "D", ")">>),
              CStr("<15", <<"W", "e", "i", "g", "h", "t", " ", "(", "%", ")">>)>>)

\* Lines 104 and 143: the same f-string.
RowLine(h) ==
    Msg("", <<CStr("<10", h.ticker), CInt("<10", h.quantity), CFix("<10.2f", h.price),
              CFix("<15.2f", h.value), CFix("<15.2f", h.weight)>>)

\* Lines 135-146: what main prints.
ConsoleReport(p, total) ==
    <<Msg("", << >>), Rule("="), Msg("     FINAL PORTFOLIO REPORT    ", << >>),
      Rule("="), HeaderLine, Rule("-")>>
    \o [i \in DOMAIN p |-> RowLine(p[i])]
    \o <<Rule("-"), Msg("Total Portfolio Value: ${}", <<CFix(",.2f", total)>>),
         Rule("=")>>

\* Lines 95-108: what save_results_to_file writes.
FileReport(p, total) ==
    <<Rule("="), Msg("     STOCK PORTFOLIO SUMMARY", << >>), Rule("="),
      HeaderLine, Rule("-")>>
    \o [i \in DOMAIN p |-> RowLine(p[i])]
    \o <<Rule("-"), Msg("Total Investment Value: ${}", <<CFix(",.2f", total)>>),
         Rule("=")>>

\* Lines 135-146.
Render ==
    /\ pc = "render"
    /\ console' = ConsoleReport(portfolio, total_value)
    /\ out' = console'
    /\ pc' = "save_prompt"
    /\ steps' = Append(steps, "display")
    /\ lastInput' = NoLine
    /\ UNCHANGED <<portfolio, ticker, total_value, file, accepted, firstTicker>>

\* Line 149.
NormalizeOption(line) == Lower(Strip(line))

\* Line 150 saving unless the answer is n.
WantsSaveUnlessNo(save_option) == save_option # <<"n">>

\* Line 150.
WantsSave(save_option) == save_option = <<"y">>

SavedMessage ==
    <<Msg("", << >>),
      Msg("[SUCCESS] Report successfully saved to {}", <<CStr("", <<"portfolio_summary.txt">>)>>)>>
IOErrorMessage ==
    <<Msg("", << >>), Msg("[ERROR] An error occurred while saving the file: {}", << >>)>>
SkippedMessage == <<Msg("File saving skipped.", << >>)>>

\* Lines 149-153 with save_results_to_file, lines 93-113.  The file system
\* decides whether open() and the writes succeed: io is "ok", "open" (open()
\* raised, the file is as it was) or "write" (a write raised after io.n lines
\* had reached the file).
ReadSaveOption(line, io) ==
    /\ pc = "save_prompt"
    /\ lastInput' = line
    /\ pc' = "exit"
    /\ IF WantsSave(NormalizeOption(line))
       THEN /\ steps' = steps \o <<"save_prompt", "save_results_to_file">>
            /\ IF io.at = "ok"
               THEN file' = FileReport(portfolio, total_value) /\ out' = SavedMessage
               ELSE IF io.at = "open"
               THEN file' = file /\ out' = IOErrorMessage
               ELSE /\ file' = SubSeq(FileReport(portfolio, total_value), 1, io.n)
                    /\ out' = IOErrorMessage
       ELSE /\ steps' = Append(steps, "save_prompt")
            /\ file' = file
            /\ out' = SkippedMessage
    /\ UNCHANGED <<portfolio, ticker, total_value, console, accepted, firstTicker>>

\* What the file system may do with a report of n lines.
IOOutcomes(n) ==
    {[at |-> "ok", n |-> n], [at |-> "open", n |-> 0]}
    \cup {[at |-> "write", n |-> k] : k \in 0..(n - 1)}

Next ==
    \/ \E line \in TickerInputs : ReadTicker(line)
    \/ \E line \in QuantityInputs : ReadQuantity(line)
    \/ CheckEmpty
    \/ CalcValue
    \/ CalcWeights
    \/ Render
    \/ \E line \in SaveInputs :
          \E io \in IOOutcomes(Len(portfolio) + 8) : ReadSaveOption(line, io)

Spec == Init /\ [][Next]_vars

(***************************************************************************)
(* The properties.                                                         *)
(***************************************************************************)
\* The lines of the model by what the user means with them, written out so
\* that no operator of the program decides the class of a line.
XYZ == <<"X", "Y", "Z">>
UnknownTickerLines == { <<"x", "y", "z">>, << >> }
SentinelLines == { <<"d", "o", "n", "e">>, <<" ", "D", "o", "n", "e">> }
KnownTickerLines == { <<"n", "v", "d", "a">>, <<" ", "V", " ">> }
EmptyQuantityLines == { << >>, <<" ", " ">> }
NotNumberLines == { <<"a", "b", "c">>, <<"d", "o", "n", "e">>, <<"1", ".", "5">> }
NotPositiveLines == { <<"0">>, <<"-", "3">> }
YesLines == { <<"y">>, <<" ", "Y">> }

Two == BFromNat(2)
Ten == BFromNat(10)

AfterCollection == {"Done", "value", "weights", "render", "save_prompt", "exit"}
AfterValue == {"weights", "render", "save_prompt", "exit"}
AfterWeights == {"render", "save_prompt", "exit"}

\* The state of the collector's state machine.
CollectorState ==
    IF pc \in {"AwaitingTicker", "AwaitingQuantity", "crashed"} THEN pc ELSE "Done"

\* C1: every holding of the portfolio has a ticker of the price table, a
\* positive quantity, the table's price, and a value that is, to the cent,
\* quantity times the listed price.
C1_ValueExactToTheCent ==
    \A i \in DOMAIN portfolio :
        LET h == portfolio[i]
        IN  /\ h.ticker \in DOMAIN PriceCents
            /\ h.quantity # << >>
            /\ h.price = STOCK_PRICES[h.ticker]
            /\ Fixed2(h.value) =
                   [k |-> "fin", c |-> BMul(h.quantity, BFromNat(PriceCents[h.ticker]))]

\* The weights added up as Python adds floats, in list order.
SumOfWeights(p) ==
    LET F[n \in 0..Len(p)] == IF n = 0 THEN FZero ELSE FAdd(F[n - 1], p[n].weight)
    IN  F[Len(p)]

\* C2: once the weights are computed for a non-empty portfolio they add up
\* to 100.00 at two decimals, unless the total value is 0, and then every
\* weight is still 0.
C2_WeightsSumTo100 ==
    (pc \in AfterWeights /\ portfolio # << >>) =>
        IF FIsZero(total_value)
        THEN \A i \in DOMAIN portfolio : portfolio[i].weight = FZero
        ELSE Fixed2(SumOfWeights(portfolio)) = [k |-> "fin", c |-> BFromNat(10000)]

\* C3: a line at the ticker prompt that names no stock of the table and is
\* not the sentinel leaves the portfolio as it was and the program at the
\* ticker prompt, with the error printed, however often it happens.
C3_UnknownTickerReprompts ==
    [][(pc = "AwaitingTicker" /\ lastInput' \in UnknownTickerLines) =>
          /\ portfolio' = portfolio
          /\ accepted' = accepted
          /\ pc' = "AwaitingTicker"
          /\ out' = <<TickerError(IF lastInput' = << >> THEN << >> ELSE XYZ)>>]_vars

C3_Witness ==
    /\ pc = "AwaitingTicker"
    /\ lastInput = <<"x", "y", "z">>
    /\ out = <<TickerError(XYZ)>>
    /\ Len(portfolio) = 1

\* C4: an empty, a non-numeric or a non-positive line at the quantity prompt
\* leaves the portfolio as it was and the program at the quantity prompt of
\* the same ticker, and prints the message of its kind; the three messages
\* differ.
C4_BadQuantityReprompts ==
    [][(pc = "AwaitingQuantity"
        /\ lastInput' \in EmptyQuantityLines \cup NotNumberLines \cup NotPositiveLines) =>
          /\ portfolio' = portfolio
          /\ accepted' = accepted
          /\ pc' = "AwaitingQuantity"
          /\ ticker' = ticker
          /\ lastInput' \in EmptyQuantityLines => out' = <<EmptyMessage>>
          /\ lastInput' \in NotNumberLines => out' = <<NotNumberMessage>>
          /\ lastInput' \in NotPositiveLines => out' = <<NotPositiveMessage>>
          /\ EmptyMessage # NotNumberMessage
          /\ EmptyMessage # NotPositiveMessage
          /\ NotNumberMessage # NotPositiveMessage]_vars

C4_Witness ==
    /\ pc = "AwaitingQuantity"
    /\ lastInput = <<"0">>
    /\ out = <<NotPositiveMessage>>
    /\ ticker = V
    /\ Len(portfolio) = 1

\* C5: when the first line at the ticker prompt is the sentinel, the
\* portfolio is empty and main ends with its message, having computed no
\* total and no weights, printed no report, asked nothing and written no
\* file.
C5_DoneFirstExitsAtOnce ==
    firstTicker = "sentinel" =>
        /\ portfolio = << >>
        /\ pc \in {"Done", "exit"}
        /\ steps = IF pc = "exit" THEN <<"sys.exit">> ELSE << >>
        /\ total_value = FZero
        /\ console = << >>
        /\ file \in {Absent, Stale}
        /\ lastInput \in IF pc = "Done" THEN SentinelLines ELSE {NoLine}
        /\ pc = "exit" =>
              out = <<Msg("", << >>),
                      Msg("No stocks were entered. Application closing.", << >>)>>

C5_Witness == firstTicker = "sentinel" /\ pc = "exit" /\ steps = <<"sys.exit">>

\* The holding that line 56 builds for an accepted entry.
HoldingOf(entry) ==
    Holding(entry[1], entry[2], STOCK_PRICES[entry[1]],
            HoldingValue(entry[2], STOCK_PRICES[entry[1]]), FZero)

\* C6: the total is the sum of the values in list order, 0 for an empty
\* list, and computing it changes no holding; for the entries (NVDA, 2) and
\* (V, 10) the total shows as 4452.50 and the weights as 39.33 and 60.67.
C6_TotalIsSumOfValues ==
    LET F[n \in 0..Len(portfolio)] ==
            IF n = 0 THEN FZero ELSE FAdd(F[n - 1], portfolio[n].value)
    IN  /\ calculate_portfolio_value(<< >>) = FZero
        /\ pc \in AfterValue => total_value = F[Len(portfolio)]
        /\ pc = "weights" =>
              \A i \in DOMAIN portfolio : portfolio[i] = HoldingOf(accepted[i])
        /\ (pc \in AfterValue /\ accepted = << <<NVDA, Two>>, <<V, Ten>> >>) =>
              Fixed2(total_value) = [k |-> "fin", c |-> BFromNat(445250)]
        /\ (pc \in AfterWeights /\ accepted = << <<NVDA, Two>>, <<V, Ten>> >>) =>
              /\ Fixed2(portfolio[1].weight) = [k |-> "fin", c |-> BFromNat(3933)]
              /\ Fixed2(portfolio[2].weight) = [k |-> "fin", c |-> BFromNat(6067)]

C6_Witness ==
    /\ pc = "save_prompt"
    /\ accepted = << <<NVDA, Two>>, <<V, Ten>> >>
    /\ Fixed2(total_value).c = BFromNat(445250)

MainSteps ==
    <<"calculate_portfolio_value", "calculate_portfolio_weights", "display",
      "save_prompt", "save_results_to_file">>

\* How many of main's steps are behind at each place.
StepsAt ==
    [p \in {"value", "weights", "render", "save_prompt"} |->
        CASE p = "value" -> 0 [] p = "weights" -> 1 [] p = "render" -> 2
          [] p = "save_prompt" -> 3]

\* C7: with a non-empty portfolio main computes the total, then the weights,
\* then prints the report, then asks; on the answer y it writes the report
\* to portfolio_summary.txt and reports success or the I/O error, on any
\* other answer it writes nothing and says that saving was skipped.
C7_MainOrderAndSave ==
    (pc \in AfterCollection /\ pc # "Done" /\ portfolio # << >>) =>
        /\ pc \in DOMAIN StepsAt =>
              /\ steps = SubSeq(MainSteps, 1, StepsAt[pc])
              /\ file \in {Absent, Stale}
        /\ pc \in {"value", "weights", "render"} => console = << >>
        /\ pc = "save_prompt" =>
              /\ console = ConsoleReport(portfolio, total_value)
              /\ portfolio = calculate_portfolio_weights(portfolio, total_value)
        /\ (pc = "exit" /\ lastInput \in YesLines) =>
              /\ steps = MainSteps
              /\ \/ /\ out = SavedMessage
                    /\ file = FileReport(portfolio, total_value)
                 \/ out = IOErrorMessage
        /\ (pc = "exit" /\ lastInput \notin YesLines) =>
              /\ steps = SubSeq(MainSteps, 1, 4)
              /\ out = SkippedMessage
              /\ file \in {Absent, Stale}

C7_Witness ==
    /\ pc = "exit"
    /\ lastInput = <<" ", "Y">>
    /\ out = SavedMessage
    /\ Len(portfolio) = 2
    /\ file = FileReport(portfolio, total_value)

\* The lines of a report from its column header on.
FromHeader(report) ==
    LET i == CHOOSE j \in DOMAIN report : report[j] = HeaderLine
    IN  SubSeq(report, i, Len(report))

\* C8: a report that was saved has, from the column header on, the lines of
\* the report that was printed.
C8_FileAndConsoleAgree ==
    (pc = "exit" /\ out = SavedMessage) => FromHeader(file) = FromHeader(console)

\* C9: the collector moves only between AwaitingTicker, AwaitingQuantity and
\* Done: from AwaitingTicker to AwaitingQuantity on a known ticker, to Done
\* on the sentinel, to itself on an unknown ticker; from AwaitingQuantity to
\* itself on a bad quantity and to AwaitingTicker by appending exactly one
\* holding; Done is left no more, and is entered from AwaitingTicker only.
C9_CollectorStateMachine ==
    [][LET from == CollectorState
           to == CollectorState'
       IN  /\ to \in {"AwaitingTicker", "AwaitingQuantity", "Done"}
           /\ from = "AwaitingTicker" =>
                 /\ to = "AwaitingQuantity" <=> lastInput' \in KnownTickerLines
                 /\ to = "Done" <=> lastInput' \in SentinelLines
                 /\ to = "AwaitingTicker" <=> lastInput' \in UnknownTickerLines
                 /\ portfolio' = portfolio
           /\ from = "AwaitingQuantity" =>
                 /\ to \in {"AwaitingQuantity", "AwaitingTicker"}
                 /\ to = "AwaitingQuantity" =>
                       /\ portfolio' = portfolio
                       /\ lastInput' \in EmptyQuantityLines \cup NotNumberLines
                                         \cup NotPositiveLines
                 /\ to = "AwaitingTicker" =>
                       /\ Len(portfolio') = Len(portfolio) + 1
                       /\ SubSeq(portfolio', 1, Len(portfolio)) = portfolio
                 /\ lastInput' = <<"d", "o", "n", "e">> => to = "AwaitingQuantity"
           /\ from = "Done" => to = "Done"]_vars

\* C10: the portfolio is the accepted entries in the order of entry, one
\* holding for each, also when a ticker is entered twice.
C10_PortfolioIsTheEntries ==
    /\ Len(portfolio) = Len(accepted)
    /\ \A i \in DOMAIN portfolio :
          [portfolio[i] EXCEPT !.weight = FZero] = HoldingOf(accepted[i])

C10_Witness ==
    /\ pc = "Done"
    /\ accepted = << <<V, Ten>>, <<V, Ten>> >>
    /\ Len(portfolio) = 2
    /\ portfolio[1] = portfolio[2]

====
